---- MODULE Spec2Model ----
(***************************************************************************)
(* Fanout (lib/vector-core/src/fanout.rs): a Sink that broadcasts every    *)
(* item to a reconfigurable list of output sinks.                          *)
(*                                                                         *)
(* One action per Sink call on the Fanout (poll_ready, start_send,         *)
(* poll_flush, poll_close), one for the topology manager enqueuing a       *)
(* ControlMessage, one for a receiver draining an output.  Cursor and slot *)
(* indices are 0-based as in the source; slot k of the Vec is sinks[k+1].  *)
(***************************************************************************)
EXTENDS Integers, Sequences, FiniteSets, TLC

\* ---- bounds of the model ------------------------------------------------
MaxInit == 3          \* outputs registered with Fanout::add before driving
MaxItems == 2         \* items the upstream producer submits
MaxMsgs == 2          \* control messages the topology manager sends
MaxLoad == 4          \* initial outputs plus control messages, together

\* capacity of an output's buffer (tests: standalone_memory(1, Block))
Capacity == 1

Ids == 1..(MaxInit + 1)
Handles == 1..MaxLoad
NoSink == 0           \* Option::None in a slot or in Replace(id, None)

VARIABLES
  sinks,      \* Fanout.sinks : sequence of [id, h]; h = NoSink when absent
  i,          \* Fanout.i : readiness cursor (0-based)
  ctrl,       \* messages in the control channel, oldest first
  spawned,    \* handles handed to a detached close() task
  phase,      \* "run" | "closing" | "closed" | "failed" | "panicked"
  op,         \* the last Sink call made on the Fanout
  ret,        \* what it returned
  calls,      \* the calls it made on output handles, in order
  canSend,    \* poll_ready returned Ready(Ok) and start_send has not run yet
  nsent,      \* items submitted with start_send so far (item k is the number k)
  recv,       \* per handle: items its start_send accepted, in order
  queued,     \* per handle: accepted items the receiver has not taken yet
  rdy,        \* per handle: its poll_ready returned Ready(Ok) since its last start_send
  since,      \* per handle: nsent when it was installed in a slot (-1: never)
  gone,       \* per handle: nsent when Remove/Replace took it out (-1: not yet)
  failedH,    \* handles one of whose calls returned Err
  cold,       \* handles the last start_send called although rdy was FALSE
  via,        \* per handle: "init", "add" or "replace" (how it reaches a slot)
  nextH,      \* next unused handle (a handle is owned by one slot or message)
  nmsgs,      \* control messages sent so far
  cp,         \* the topology manager's view: ids it added and has not removed
  ctrlWaker,  \* the polling task is registered with the control channel
  woken       \* the polling task was woken by the control channel

vars == <<sinks, i, ctrl, spawned, phase, op, ret, calls, canSend, nsent, recv,
          queued, rdy, since, gone, failedH, cold, via, nextH, nmsgs, cp,
          ctrlWaker, woken>>

\* ---- helpers -----------------------------------------------------------
Slot(id, h) == [id |-> id, h |-> h]

HasId(s, id) == \E k \in 1..Len(s) : s[k].id = id

\* iter().position(): 0-based index of the first slot with this id
Position(s, id) == (CHOOSE k \in 1..Len(s) :
                      s[k].id = id /\ \A j \in 1..(k-1) : s[j].id # id) - 1

\* Vec::remove(index)
VecRemove(s, k) == SubSeq(s, 1, k) \o SubSeq(s, k + 2, Len(s))

HandlesOf(s) == {s[k].h : k \in 1..Len(s)} \ {NoSink}

Range(a, b) == [k \in 1..(IF b >= a THEN b - a + 1 ELSE 0) |-> a + k - 1]

\* the Fanout's own fields, as the value the methods below transform
\* (waker: the task's waker is registered with control_channel; left: the
\* messages a call has not taken out of control_channel)
Fanout(s, c, sp, w) ==
  [sinks |-> s, i |-> c, spawned |-> sp, waker |-> w, panicked |-> FALSE,
   left |-> <<>>]

\* ---- control messages (lines 52-97) -----------------------------------
\* add whose duplicate-id assertion looks only at slots holding a handle
add_checks_present(f, id, h) ==
  IF \E k \in 1..Len(f.sinks) : f.sinks[k].id = id /\ f.sinks[k].h # NoSink
    THEN [f EXCEPT !.panicked = TRUE]
    ELSE [f EXCEPT !.sinks = Append(@, Slot(id, h))]

\* add with the duplicate-id assertion left out
add_unchecked(f, id, h) ==
  [f EXCEPT !.sinks = Append(@, Slot(id, h))]

add(f, id, h) ==
  IF HasId(f.sinks, id)
    THEN [f EXCEPT !.panicked = TRUE]
    ELSE [f EXCEPT !.sinks = Append(@, Slot(id, h))]

\* remove with the cursor adjustment left out
remove_keeps_cursor(f, id) ==
  IF ~HasId(f.sinks, id)
    THEN [f EXCEPT !.panicked = TRUE]
    ELSE LET k == Position(f.sinks, id)
             removed == f.sinks[k + 1].h
         IN [f EXCEPT !.sinks = VecRemove(@, k),
                      !.spawned = IF removed # NoSink THEN @ \cup {removed} ELSE @]

\* remove with the Vec::remove left out: the handle is closed, its slot stays
remove_keeps_slot(f, id) ==
  IF ~HasId(f.sinks, id)
    THEN [f EXCEPT !.panicked = TRUE]
    ELSE LET k == Position(f.sinks, id)
             removed == f.sinks[k + 1].h
         IN [f EXCEPT !.spawned = IF removed # NoSink THEN @ \cup {removed} ELSE @]

remove(f, id) ==
  IF ~HasId(f.sinks, id)
    THEN [f EXCEPT !.panicked = TRUE]
    ELSE LET k == Position(f.sinks, id)
             removed == f.sinks[k + 1].h
         IN [f EXCEPT !.sinks = VecRemove(@, k),
                      !.spawned = IF removed # NoSink THEN @ \cup {removed} ELSE @,
                      !.i = IF @ > k THEN @ - 1 ELSE @]

\* replace done as remove-then-push: the slot moves to the end
replace_reinserts(f, id, h) ==
  IF ~HasId(f.sinks, id)
    THEN [f EXCEPT !.panicked = TRUE]
    ELSE [f EXCEPT !.sinks = Append(VecRemove(@, Position(f.sinks, id)), Slot(id, h))]

replace(f, id, h) ==
  IF ~HasId(f.sinks, id)
    THEN [f EXCEPT !.panicked = TRUE]
    ELSE [f EXCEPT !.sinks[Position(f.sinks, id) + 1].h = h]

apply_message(f, m) ==
  CASE m.t = "Add" -> add(f, m.id, m.h)
    [] m.t = "Remove" -> remove(f, m.id)
    [] m.t = "Replace" -> replace(f, m.id, m.h)

\* draining with try_recv: the queue is emptied, no waker is registered
RECURSIVE process_control_messages_try_recv(_, _)
process_control_messages_try_recv(f, q) ==
  IF f.panicked THEN f
  ELSE IF q = <<>> THEN [f EXCEPT !.left = <<>>]
  ELSE process_control_messages_try_recv(apply_message(f, Head(q)), Tail(q))

\* draining with `if let` for `while let`: one message per call
process_control_messages_once(f, q) ==
  IF q = <<>> THEN [f EXCEPT !.waker = TRUE, !.left = <<>>]
  ELSE [apply_message(f, Head(q)) EXCEPT !.left = Tail(q)]

RECURSIVE process_control_messages(_, _)
process_control_messages(f, q) ==
  IF f.panicked THEN f
  ELSE IF q = <<>> THEN [f EXCEPT !.waker = TRUE, !.left = <<>>]   \* poll_recv: Pending
  ELSE process_control_messages(apply_message(f, Head(q)), Tail(q))

\* ---- failure policy (lines 99-111) ------------------------------------
\* the policy with the close that remove schedules for the handle it drops
handle_sink_error_closes(f, index) ==
  IF Len(f.sinks) = 1
    THEN [f |-> f, err |-> TRUE]
    ELSE [f |-> [f EXCEPT !.sinks = VecRemove(@, index),
                          !.spawned = @ \cup ({f.sinks[index + 1].h} \ {NoSink})],
          err |-> FALSE]

\* the policy without the single-output case: the failing slot always goes
handle_sink_error_always_evicts(f, index) ==
  [f |-> [f EXCEPT !.sinks = VecRemove(@, index)], err |-> FALSE]

\* the policy without the multi-output case: every failure is propagated
handle_sink_error_always_fails(f, index) ==
  [f |-> f, err |-> TRUE]

handle_sink_error(f, index) ==
  IF Len(f.sinks) = 1
    THEN [f |-> f, err |-> TRUE]
    ELSE [f |-> [f EXCEPT !.sinks = VecRemove(@, index)], err |-> FALSE]

Call(h, r, n) == [h |-> h, r |-> r, n |-> n]
Result(f, r, c) == [f |-> f, ret |-> r, calls |-> c]

\* ---- poll_ready (lines 150-172) ----------------------------------------
\* out[h] is what handle h's own poll_ready returns in this call
RECURSIVE poll_ready_loop(_, _, _)
poll_ready_loop(f, out, c) ==
  IF f.i >= Len(f.sinks) THEN Result([f EXCEPT !.i = 0], "ready", c)
  ELSE LET h == f.sinks[f.i + 1].h IN
    IF h = NoSink THEN Result(f, "pending", c)
    ELSE LET c2 == Append(c, Call(h, out[h], Len(f.sinks))) IN
      CASE out[h] = "pending" -> Result(f, "pending", c2)
        [] out[h] = "ready" -> poll_ready_loop([f EXCEPT !.i = @ + 1], out, c2)
        [] out[h] = "err" ->
             LET e == handle_sink_error(f, f.i) IN
             IF e.err THEN Result(e.f, "err", c2)
             ELSE poll_ready_loop(e.f, out, c2)

poll_ready(f, q, out) ==
  LET g == process_control_messages(f, q) IN
  IF g.panicked THEN Result(g, "panic", <<>>)
  ELSE poll_ready_loop(g, out, <<>>)

\* ---- start_send (lines 174-198) ----------------------------------------
\* rej is the set of handles whose start_send returns Err for this item
\* the loop of start_send without its `continue`: the index advances after an
\* eviction too, stepping over the slot that moved into the freed index
RECURSIVE start_send_rest_advances(_, _, _, _)
start_send_rest_advances(f, k, rej, c) ==
  IF k >= Len(f.sinks) THEN Result(f, "ok", c)
  ELSE LET h == f.sinks[k + 1].h IN
    IF h = NoSink THEN start_send_rest_advances(f, k + 1, rej, c)
    ELSE IF h \in rej
      THEN LET e == handle_sink_error(f, k)
               c2 == Append(c, Call(h, "err", Len(f.sinks)))
           IN IF e.err THEN Result(e.f, "err", c2)
              ELSE start_send_rest_advances(e.f, k + 1, rej, c2)
      ELSE start_send_rest_advances(f, k + 1, rej, Append(c, Call(h, "ok", Len(f.sinks))))

RECURSIVE start_send_rest(_, _, _, _)
start_send_rest(f, k, rej, c) ==
  IF k >= Len(f.sinks) THEN Result(f, "ok", c)
  ELSE LET h == f.sinks[k + 1].h IN
    IF h = NoSink THEN start_send_rest(f, k + 1, rej, c)
    ELSE IF h \in rej
      THEN LET e == handle_sink_error(f, k)
               c2 == Append(c, Call(h, "err", Len(f.sinks)))
           IN IF e.err THEN Result(e.f, "err", c2)
              ELSE start_send_rest(e.f, k, rej, c2)
      ELSE start_send_rest(f, k + 1, rej, Append(c, Call(h, "ok", Len(f.sinks))))

start_send_first(f, rej, c) ==
  IF Len(f.sinks) = 0 THEN Result(f, "ok", c)
  ELSE LET h == f.sinks[1].h IN
    IF h = NoSink THEN Result(f, "ok", c)
    ELSE IF h \in rej
      THEN LET e == handle_sink_error(f, 0)
               c2 == Append(c, Call(h, "err", Len(f.sinks)))
           IN Result(e.f, IF e.err THEN "err" ELSE "ok", c2)
      ELSE Result(f, "ok", Append(c, Call(h, "ok", Len(f.sinks))))

\* start_send that drains the control channel first, as the poll calls do
start_send_drains(f, rej) ==
  LET g == process_control_messages(f, f.left)
      r == start_send_rest(g, 1, rej, <<>>)
  IN IF r.ret = "err" THEN r ELSE start_send_first(r.f, rej, r.calls)

\* start_send without the trailing first_mut() block: slot 0 gets nothing
start_send_without_first(f, rej) ==
  start_send_rest(f, 1, rej, <<>>)

\* start_send as one loop over the slots from index 0
start_send_from_zero(f, rej) ==
  start_send_rest(f, 0, rej, <<>>)

start_send(f, rej) ==
  LET r == start_send_rest(f, 1, rej, <<>>) IN
  IF r.ret = "err" THEN r ELSE start_send_first(r.f, rej, r.calls)

\* ---- poll_flush / poll_close (lines 113-144, 200-206) -------------------
\* out[h] is what handle h's poll_flush (poll_close) returns in this call
\* the sweep of poll_ready used for flushing: a Pending output ends it
RECURSIVE poll_sinks_loop_stops(_, _, _, _, _)
poll_sinks_loop_stops(f, k, out, res, c) ==
  IF k >= Len(f.sinks) THEN Result(f, res, c)
  ELSE LET h == f.sinks[k + 1].h IN
    IF h = NoSink THEN poll_sinks_loop_stops(f, k + 1, out, res, c)
    ELSE LET c2 == Append(c, Call(h, out[h], Len(f.sinks))) IN
      CASE out[h] = "pending" -> Result(f, "pending", c2)
        [] out[h] = "ready" -> poll_sinks_loop_stops(f, k + 1, out, res, c2)
        [] out[h] = "err" ->
             LET e == handle_sink_error(f, k) IN
             IF e.err THEN Result(e.f, "err", c2)
             ELSE poll_sinks_loop_stops(e.f, k, out, res, c2)

RECURSIVE poll_sinks_loop(_, _, _, _, _)
poll_sinks_loop(f, k, out, res, c) ==
  IF k >= Len(f.sinks) THEN Result(f, res, c)
  ELSE LET h == f.sinks[k + 1].h IN
    IF h = NoSink THEN poll_sinks_loop(f, k + 1, out, res, c)
    ELSE LET c2 == Append(c, Call(h, out[h], Len(f.sinks))) IN
      CASE out[h] = "pending" -> poll_sinks_loop(f, k + 1, out, "pending", c2)
        [] out[h] = "ready" -> poll_sinks_loop(f, k + 1, out, res, c2)
        [] out[h] = "err" ->
             LET e == handle_sink_error(f, k) IN
             IF e.err THEN Result(e.f, "err", c2)
             ELSE poll_sinks_loop(e.f, k, out, res, c2)

poll_sinks(f, q, out) ==
  LET g == process_control_messages(f, q) IN
  IF g.panicked THEN Result(g, "panic", <<>>)
  ELSE poll_sinks_loop(g, 0, out, "ready", <<>>)

\* ---- the outputs ---------------------------------------------------------
\* An output's poll_ready: Ready(Ok) when its buffer has room, else Pending;
\* any call on an output may also fail (the handles in F).
ReadyOut(F) ==
  [h \in Handles |-> IF h \in F THEN "err"
                     ELSE IF queued[h] < Capacity THEN "ready" ELSE "pending"]

\* An output's poll_flush / poll_close: Pending while its receiver has not
\* taken everything it accepted, else Ready(Ok); Err for the handles in F
FlushOut(F) ==
  [h \in Handles |-> IF h \in F THEN "err"
                     ELSE IF queued[h] > 0 THEN "pending" ELSE "ready"]

Called(c, r) == {c[k].h : k \in {j \in 1..Len(c) : c[j].r = r}}

\* ---- bookkeeping shared by the four Sink calls --------------------------
\* r is the Result of the call made in the current state; in and out are the
\* handles it put into and took out of the sequence.  A handle taken out is no
\* longer fed, so its buffer and readiness are no longer tracked; of a handle
\* the failure policy dropped, only that it failed is kept.  A handle added
\* and removed by messages of the same batch was in the sequence for no item.
Installs(r, in, out) ==
  /\ sinks' = r.f.sinks
  /\ i' = r.f.i
  /\ spawned' = r.f.spawned
  /\ ctrlWaker' = r.f.waker
  /\ ctrl' = r.f.left
  /\ ret' = r.ret
  /\ calls' = r.calls
  /\ failedH' = failedH \cup Called(r.calls, "err")
  /\ since' = [h \in Handles |->
                 IF h \in in \cup ((r.f.spawned \ spawned) \ HandlesOf(sinks)) THEN nsent
                 ELSE IF h \in out /\ h \in Called(r.calls, "err") THEN -1
                 ELSE since[h]]
  /\ gone' = [h \in Handles |->
                IF h \in (out \ Called(r.calls, "err")) \cup (r.f.spawned \ spawned)
                  THEN nsent ELSE gone[h]]

Current == [Fanout(sinks, i, spawned, ctrlWaker) EXCEPT !.left = ctrl]

PhaseAfter(r) ==
  CASE r.ret = "panic" -> "panicked"
    [] r.ret = "err" -> "failed"
    [] OTHER -> "run"

\* ---- actions ------------------------------------------------------------
PollReady ==
  /\ phase = "run"
  /\ \E g \in {process_control_messages(Current, ctrl)} :
     \E F \in SUBSET HandlesOf(g.sinks) :
     \E r \in {poll_ready(Current, ctrl, ReadyOut(F))} :
     \E in \in {HandlesOf(r.f.sinks) \ HandlesOf(sinks)} :
     \E out \in {HandlesOf(sinks) \ HandlesOf(r.f.sinks)} :
     \E ok \in {Called(r.calls, "ready")} :
       /\ Installs(r, in, out)
       /\ op' = "poll_ready"
       /\ phase' = PhaseAfter(r)
       /\ canSend' = (r.ret = "ready")
       /\ rdy' = [h \in Handles |-> h \notin out /\ (rdy[h] \/ h \in ok)]
       /\ queued' = [h \in Handles |-> IF h \in out THEN 0 ELSE queued[h]]
       /\ recv' = [h \in Handles |->
                     IF h \in out /\ h \in Called(r.calls, "err") THEN <<>> ELSE recv[h]]
  /\ woken' = FALSE
  /\ UNCHANGED <<nsent, cold, via, nextH, nmsgs, cp>>

StartSend ==
  /\ phase = "run"
  /\ canSend
  /\ nsent < MaxItems
  /\ \E rej \in SUBSET HandlesOf(sinks) :
     \E r \in {start_send(Current, rej)} :
     \E out \in {HandlesOf(sinks) \ HandlesOf(r.f.sinks)} :
     \E acc \in {Called(r.calls, "ok")} :
       /\ Installs(r, {}, out)
       /\ phase' = PhaseAfter(r)
       /\ recv' = [h \in Handles |->
                     IF h \in out THEN <<>>
                     ELSE IF h \in acc THEN Append(recv[h], nsent + 1) ELSE recv[h]]
       /\ queued' = [h \in Handles |->
                       IF h \in out THEN 0
                       ELSE IF h \in acc THEN queued[h] + 1 ELSE queued[h]]
       /\ rdy' = [h \in Handles |-> rdy[h] /\ h \notin acc /\ h \notin out]
       /\ cold' = {h \in Called(r.calls, "ok") \cup Called(r.calls, "err") : ~rdy[h]}
  /\ op' = "start_send"
  /\ canSend' = FALSE
  /\ nsent' = nsent + 1
  /\ woken' = FALSE
  /\ UNCHANGED <<via, nextH, nmsgs, cp>>

PollSinks(name) ==
  /\ phase = "run" \/ (phase = "closing" /\ name = "poll_close")
  /\ \E g \in {process_control_messages(Current, ctrl)} :
     \E F \in SUBSET HandlesOf(g.sinks) :
     \E r \in {poll_sinks(Current, ctrl, FlushOut(F))} :
     \E in \in {HandlesOf(r.f.sinks) \ HandlesOf(sinks)} :
     \E out \in {HandlesOf(sinks) \ HandlesOf(r.f.sinks)} :
       /\ Installs(r, in, out)
       /\ phase' = IF name = "poll_close" /\ r.ret = "ready" THEN "closed"
                   ELSE IF name = "poll_close" /\ r.ret = "pending" THEN "closing"
                   ELSE PhaseAfter(r)
       /\ rdy' = [h \in Handles |-> rdy[h] /\ h \notin out]
       /\ queued' = [h \in Handles |-> IF h \in out THEN 0 ELSE queued[h]]
       /\ recv' = [h \in Handles |->
                     IF h \in out /\ h \in Called(r.calls, "err") THEN <<>> ELSE recv[h]]
  /\ op' = name
  /\ canSend' = FALSE
  /\ woken' = FALSE
  /\ UNCHANGED <<nsent, cold, via, nextH, nmsgs, cp>>

PollFlush == PollSinks("poll_flush")

PollClose == PollSinks("poll_close")

\* the topology manager: ControlChannel::send (an unbounded channel)
Send(m) ==
  /\ phase = "run"
  /\ nmsgs < MaxMsgs
  /\ Cardinality({h \in Handles : via[h] = "init"}) + nmsgs < MaxLoad
  /\ ctrl' = Append(ctrl, m)
  /\ nmsgs' = nmsgs + 1
  /\ nextH' = IF m.h # NoSink THEN nextH + 1 ELSE nextH
  /\ via' = IF m.h # NoSink THEN [via EXCEPT ![m.h] = IF m.t = "Add" THEN "add" ELSE "replace"]
            ELSE via
  /\ woken' = (woken \/ ctrlWaker)
  /\ ctrlWaker' = FALSE
  /\ UNCHANGED <<sinks, i, spawned, phase, op, ret, calls, canSend, nsent, recv,
                 queued, rdy, since, gone, failedH, cold>>

\* The manager adds an id it does not hold, removes and replaces ids it holds.
SendAdd ==
  /\ Ids \ cp # {}
  /\ LET id == CHOOSE x \in Ids \ cp : \A y \in Ids \ cp : x <= y IN
     /\ Send([t |-> "Add", id |-> id, h |-> nextH])
     /\ cp' = cp \cup {id}

SendRemove ==
  \E id \in cp :
    /\ Send([t |-> "Remove", id |-> id, h |-> NoSink])
    /\ cp' = cp \ {id}

SendReplace ==
  \E id \in cp : \E h \in {NoSink, nextH} :
    /\ Send([t |-> "Replace", id |-> id, h |-> h])
    /\ cp' = cp

\* a receiver takes one item out of its output's buffer
Drain ==
  /\ phase \in {"run", "closing"}
  /\ \E h \in HandlesOf(sinks) :
       /\ queued[h] > 0
       /\ queued' = [queued EXCEPT ![h] = @ - 1]
  /\ UNCHANGED <<sinks, i, ctrl, spawned, phase, op, ret, calls, canSend, nsent,
                 recv, rdy, since, gone, failedH, cold, via, nextH, nmsgs, cp,
                 ctrlWaker, woken>>

\* Fanout::new (lines 40-50) followed by n direct Fanout::add calls, as the
\* tests' fanout_from_senders does before the fanout is driven
Init ==
  \E n \in 0..MaxInit :
    /\ sinks = [k \in 1..n |-> Slot(k, k)]
    /\ i = 0
    /\ ctrl = <<>>
    /\ spawned = {}
    /\ phase = "run"
    /\ op = "new"
    /\ ret = "none"
    /\ calls = <<>>
    /\ canSend = FALSE
    /\ nsent = 0
    /\ recv = [h \in Handles |-> <<>>]
    /\ queued = [h \in Handles |-> 0]
    /\ rdy = [h \in Handles |-> FALSE]
    /\ since = [h \in Handles |-> IF h <= n THEN 0 ELSE -1]
    /\ gone = [h \in Handles |-> -1]
    /\ failedH = {}
    /\ cold = {}
    /\ via = [h \in Handles |-> IF h <= n THEN "init" ELSE "none"]
    /\ nextH = n + 1
    /\ nmsgs = 0
    /\ cp = 1..n
    /\ ctrlWaker = FALSE
    /\ woken = FALSE

Next ==
  \/ PollReady
  \/ StartSend
  \/ PollFlush
  \/ PollClose
  \/ SendAdd
  \/ SendRemove
  \/ SendReplace
  \/ Drain

Spec == Init /\ [][Next]_vars

\* A manager that does not track what it added: any message for any id.  No
\* item is submitted under this specification; it exercises the application
\* of control messages alone.
SendAny ==
  \E t \in {"Add", "Remove", "Replace"} : \E id \in Ids : \E h \in {NoSink, nextH} :
    /\ t = "Add" => h = nextH
    /\ t = "Remove" => h = NoSink
    /\ Send([t |-> t, id |-> id, h |-> h])
    /\ cp' = cp

NextAny ==
  \/ PollReady
  \/ PollFlush
  \/ SendAny

SpecAny == Init /\ [][NextAny]_vars

\* ---- properties ------------------------------------------------------
\* C1: with a fixed, non-empty set of outputs that all hold a handle and none
\* of which ever fails, every output has received exactly the submitted items
\* 1..nsent, each once and in submission order.
C1_AllOutputsReceiveAll ==
  (nmsgs = 0 /\ failedH = {}) =>
     \A k \in 1..Len(sinks) : recv[sinks[k].h] = Range(1, nsent)

C1_Witness ==
  /\ nmsgs = 0 /\ failedH = {}
  /\ Len(sinks) = 2
  /\ nsent = 2
  /\ recv[1] = <<1, 2>> /\ recv[2] = <<1, 2>>

\* C2: poll_ready returns Ready(Ok) only if every slot holds a handle whose
\* own poll_ready returned Ready(Ok) since the previous start_send and since
\* it was installed, and start_send never calls a handle not confirmed ready.
C2_ReadyOnlyIfAllReady ==
  /\ (op = "poll_ready" /\ ret = "ready") =>
        \A k \in 1..Len(sinks) : sinks[k].h # NoSink /\ rdy[sinks[k].h]
  /\ cold = {}

\* C3: poll_ready does not return Ready(Ok) while any slot's handle is absent.
C3_AbsentBlocksReady ==
  (op = "poll_ready" /\ ret = "ready") =>
     \A k \in 1..Len(sinks) : sinks[k].h # NoSink

\* The outputs that hold a handle now
Present == HandlesOf(sinks)

AtCapacity(h) == queued[h] >= Capacity

\* C4: while one output is at capacity poll_ready does not return Ready(Ok):
\* whenever it has returned Ready(Ok), no output in the sequence is at capacity.
C4_FullOutputBlocksReady ==
  (op = "poll_ready" /\ ret = "ready" /\ Len(sinks) > 1) =>
     \A h \in Present : ~AtCapacity(h)

\* what handle h has received is exactly what was sent while it sat in a slot
Delivered(h) ==
  recv[h] = Range(since[h] + 1, IF gone[h] >= 0 THEN gone[h] ELSE nsent)

\* poll_ready returned Pending at a slot whose handle is absent
PendingOnAbsent ==
  /\ phase = "run" /\ op = "poll_ready" /\ ret = "pending"
  /\ i < Len(sinks) /\ sinks[i + 1].h = NoSink

\* the only queued message installs a handle in the slot at the cursor, which
\* is the only slot without one
CompletingReplace ==
  /\ Len(ctrl) = 1
  /\ ctrl[1].t = "Replace" /\ ctrl[1].h # NoSink
  /\ i < Len(sinks) /\ ctrl[1].id = sinks[i + 1].id
  /\ \A k \in 1..Len(sinks) : sinks[k].h = NoSink => k = i + 1

\* the step is a Sink call named n that took the queued control messages
Applies(n) == ctrl # <<>> /\ ctrl' = <<>> /\ op' = n

AllCallsReturned(c, r) == \A k \in 1..Len(c) : c[k].r = r

C5_Registered ==
  PendingOnAbsent => (IF ctrl = <<>> THEN ctrlWaker ELSE woken)

C5_Resumes ==
  (PendingOnAbsent /\ CompletingReplace /\ Applies("poll_ready")) =>
     /\ Len(calls') >= 1 /\ calls'[1].h = ctrl[1].h
     /\ AllCallsReturned(calls', "ready") =>
          (ret' = "ready" /\ canSend' /\ sinks'[i + 1].h = ctrl[1].h)

Added == {h \in Handles : via[h] = "add" /\ since[h] >= 0}

Registered == {h \in Handles : via[h] = "init"}

\* C6: an output added after k-1 items has received exactly the items sent
\* since it was appended, its readiness was polled before each of them was
\* handed to it, and the outputs registered from the start that were neither
\* removed nor failed have received all items.
C6_AddedReceivesFromK ==
  /\ \A h \in Added \ failedH : Delivered(h) /\ h \notin cold
  /\ \A h \in (Registered \cap Present) \ failedH : recv[h] = Range(1, nsent)

\* C7 (state part): an output taken out by Remove is in no slot and has
\* received exactly the items sent before the Remove was applied; every output
\* still in a slot has received every item sent since it was installed; once
\* the queue has been applied no slot carries an id the manager removed.
C7_RemovedAndRemaining ==
  /\ \A h \in spawned : h \notin Present /\ (h \notin failedH => Delivered(h))
  /\ \A h \in Present \ failedH : Delivered(h)
  /\ (ctrl = <<>> /\ phase # "panicked") =>
        \A k \in 1..Len(sinks) : sinks[k].id \in cp

\* C7 (step part): a Remove applied while a send is pending, all slots holding
\* handles: the poll_ready that applies it returns Ready(Ok) unless an output
\* it polls is itself not ready.
C7_PendingCompletes ==
  (/\ op = "poll_ready" /\ ret = "pending"
   /\ Len(ctrl) = 1 /\ ctrl[1].t = "Remove" /\ HasId(sinks, ctrl[1].id)
   /\ \A k \in 1..Len(sinks) : sinks[k].h # NoSink
   /\ Applies("poll_ready")) =>
     /\ ~HasId(sinks', ctrl[1].id)
     /\ AllCallsReturned(calls', "ready") => ret' = "ready"

\* C7: Remove(id) mid-stream, between sends or while a send is pending.
C7_RemoveMidStream == []C7_RemovedAndRemaining /\ [][C7_PendingCompletes]_vars

\* the Remove took the slot a pending sweep was waiting on: the poll_ready that
\* applied it returned Ready(Ok) without polling the confirmed slots again
C7_Witness ==
  /\ op = "poll_ready" /\ ret = "ready" /\ failedH = {} /\ nsent = 1
  /\ \E h \in spawned : gone[h] = 1 /\ recv[h] = <<1>>
  /\ \E h \in Present : recv[h] = <<1>> /\ h \notin Called(calls, "ready")

Replaced == {h \in Handles : via[h] = "replace" /\ since[h] >= 0}

\* C8 (step part): a Sink call that applies one Replace(id, Some(new)) and
\* drops no failing output leaves every slot's id and position as they were
\* and changes only the handle of the slot with that id.
C8_InPlace ==
  (/\ Len(ctrl) = 1 /\ ctrl[1].t = "Replace" /\ ctrl[1].h # NoSink
   /\ HasId(sinks, ctrl[1].id)
   /\ ctrl' = <<>> /\ Called(calls', "err") = {}) =>
     /\ Len(sinks') = Len(sinks)
     /\ \A k \in 1..Len(sinks) :
          /\ sinks'[k].id = sinks[k].id
          /\ sinks'[k].h = IF sinks[k].id = ctrl[1].id THEN ctrl[1].h ELSE sinks[k].h

\* C8 (state part): the new handle has received exactly the items sent since
\* the Replace was applied, the handle it replaced exactly those sent before,
\* and every other output in a slot all items since it was installed.
C8_OldAndNew ==
  /\ \A h \in Replaced \ failedH : Delivered(h)
  /\ \A h \in Handles \ (failedH \cup spawned) :
       (since[h] >= 0 /\ gone[h] >= 0) => Delivered(h)
  /\ \A h \in Present \ failedH : Delivered(h)

\* C8: Replace(id, Some(new)) swaps the handle in place.
C8_ReplaceInPlace == []C8_OldAndNew /\ [][C8_InPlace]_vars

C8_Witness ==
  /\ op = "start_send" /\ nsent = 2 /\ failedH = {} /\ Len(sinks) = 2
  /\ \E h \in Replaced \cap Present : since[h] = 1 /\ recv[h] = <<2>>
  /\ \E h \in Registered \ Present : gone[h] = 1 /\ recv[h] = <<1>>
  /\ \E h \in Registered \cap Present : recv[h] = <<1, 2>>

\* C9: when a handle fails in a call made while it is the only slot, that
\* Sink call returns Err(()) and the slot is still in the sequence.
C9_SingleFailureEscalates ==
  \A k \in 1..Len(calls) :
    (calls[k].r = "err" /\ calls[k].n = 1) =>
       /\ ret = "err" /\ phase = "failed"
       /\ Len(sinks) = 1 /\ sinks[1].h = calls[k].h

C9_Witness ==
  /\ ret = "err" /\ Len(sinks) = 1 /\ nsent = 1
  /\ calls = <<Call(sinks[1].h, "err", 1)>>

\* C10: with a fixed set of two or more outputs of which at least one has not
\* failed, no Sink call has returned Err, every output that failed is out of
\* the sequence, and every output that has not failed is in it and has
\* received every submitted item once, in order.
C10_MultiFailureAbsorbed ==
  (nmsgs = 0 /\ Cardinality(Registered) >= 2 /\ Registered \ failedH # {}) =>
     /\ ret # "err" /\ phase # "failed"
     /\ failedH \cap Present = {}
     /\ \A h \in Registered \ failedH : h \in Present /\ recv[h] = Range(1, nsent)

C10_Witness ==
  /\ nmsgs = 0 /\ Cardinality(Registered) = 3 /\ Cardinality(failedH) = 2
  /\ nsent = 2 /\ Len(sinks) = 1 /\ recv[sinks[1].h] = <<1, 2>>

\* a Sink call made on a Fanout with no slot and nothing queued (the manager
\* sends nothing in this step, and no receiver exists to take an item)
CallOnEmpty == Len(sinks) = 0 /\ ctrl = <<>> /\ nmsgs' = nmsgs

\* what such a call returns and does to the outputs: nothing is called and
\* nothing is delivered
EmptyResults == ret' \in {"ready", "ok"} /\ calls' = <<>> /\ recv' = recv

\* C11: with zero slots poll_ready, poll_flush and poll_close return
\* Ready(Ok(())) and start_send returns Ok(()), no output is called, the item
\* is discarded, and the state is the empty sequence with cursor 0 before and
\* after the call.
C11_EmptyUnchanged ==
  [][CallOnEmpty => (EmptyResults /\ sinks' = <<>> /\ i = 0 /\ i' = 0)]_vars

\* the message violates the topology invariant of the sequence s
Violates(m, s) ==
  \/ m.t = "Add" /\ HasId(s, m.id)
  \/ m.t \in {"Remove", "Replace"} /\ ~HasId(s, m.id)

\* the sequence s with the (non-violating) message m applied
Applied(m, s) ==
  CASE m.t = "Add" -> Append(s, Slot(m.id, m.h))
    [] m.t = "Remove" -> VecRemove(s, Position(s, m.id))
    [] m.t = "Replace" -> [s EXCEPT ![Position(s, m.id) + 1].h = m.h]

C13_UniqueIds ==
  \A j \in 1..Len(sinks) : \A k \in 1..Len(sinks) :
     sinks[j].id = sinks[k].id => j = k

\* a sequence that messages and a failure eviction have reshaped
C13_Witness ==
  /\ phase = "run" /\ ctrl = <<>> /\ nmsgs = 2 /\ failedH # {}
  /\ Len(sinks) >= 2
  /\ \E h \in Present : via[h] = "add"
  /\ \E h \in Present : via[h] = "replace"

\* C14: between calls the cursor is within 0..number_of_slots.
C14_CursorInRange == 0 <= i /\ i <= Len(sinks)

\* poll_flush or poll_close applies one queued Remove for an id in the
\* sequence; these calls do not move the cursor themselves, so the cursor
\* after the step is the cursor the Remove left
FlushAppliesRemove ==
  /\ Len(ctrl) = 1 /\ ctrl[1].t = "Remove" /\ HasId(sinks, ctrl[1].id)
  /\ ctrl' = <<>> /\ op' \in {"poll_flush", "poll_close"}

\* C15: applying Remove(id) shifts the cursor down by one if the removed
\* slot's index was at or before the cursor (index <= cursor), and leaves the
\* cursor unchanged otherwise.
C15_ShiftAtOrBefore ==
  [][FlushAppliesRemove =>
       i' = IF Position(sinks, ctrl[1].id) <= i THEN i - 1 ELSE i]_vars

\* C15 as the code has it: the cursor is shifted down by one only if the
\* removed slot's index was strictly before the cursor (index < cursor); a
\* Remove of the slot at the cursor leaves the cursor where it is.
C15_ShiftStrictlyBefore ==
  [][FlushAppliesRemove =>
       i' = IF Position(sinks, ctrl[1].id) < i THEN i - 1 ELSE i]_vars

\* slot 0 of three was removed by poll_flush and the cursor went from 2 to 1
C15_Witness ==
  /\ op = "poll_flush" /\ ctrl = <<>> /\ nmsgs = 1 /\ failedH = {}
  /\ Cardinality(Registered) = 3 /\ Cardinality(spawned) = 1
  /\ Len(sinks) = 2 /\ sinks[1].id = 2 /\ sinks[2].id = 3
  /\ i = 1

\* the step is a poll_ready, poll_flush or poll_close call: the manager sends
\* nothing, no item is submitted, and no receiver takes an item
PollStep ==
  /\ nmsgs' = nmsgs /\ nsent' = nsent
  /\ ~(queued' # queued /\ sinks' = sinks)

\* the sequence s with the messages of q applied, oldest first
RECURSIVE AppliedAll(_, _)
AppliedAll(q, s) ==
  IF q = <<>> THEN s ELSE AppliedAll(Tail(q), Applied(Head(q), s))

\* C16: every poll_ready, poll_flush and poll_close call that returns has
\* applied all queued messages, oldest first, before polling any output: none
\* is still queued, every output it polled is in the sequence the messages
\* produce, and, no output failing in the call, that sequence is the result.
C16_DrainsFirst ==
  [][(PollStep /\ ret' # "panic") =>
       /\ ctrl' = <<>>
       /\ \A k \in 1..Len(calls') : calls'[k].h \in HandlesOf(AppliedAll(ctrl, sinks))
       /\ Called(calls', "err") = {} => sinks' = AppliedAll(ctrl, sinks)]_vars

\* Remove(1) and then Add(1, h) were queued and have been applied in that order
C16_Witness ==
  /\ op \in {"poll_flush", "poll_close"} /\ ctrl = <<>> /\ nmsgs = 2 /\ failedH = {}
  /\ 1 \in spawned
  /\ Len(sinks) = 2 /\ sinks[2].id = 1 /\ via[sinks[2].h] = "add"
  /\ Called(calls, "ready") = Present

\* the step is a start_send call
SendStep == nsent' = nsent + 1

\* C17: start_send takes nothing out of the control channel; it calls each
\* handle the sequence held before the call exactly once and no other, an
\* accepting handle receives the item, a handle carried by a queued message
\* receives nothing, and the sequence changes only by losing slots whose
\* handle failed in this call.
C17_SendAppliesNoMessage ==
  [][SendStep =>
       /\ ctrl' = ctrl
       /\ {calls'[k].h : k \in 1..Len(calls')} = HandlesOf(sinks)
       /\ Len(calls') = Cardinality(HandlesOf(sinks))
       /\ \A h \in Called(calls', "ok") : recv'[h] = Append(recv[h], nsent')
       /\ \A h \in Handles \ HandlesOf(sinks) : recv'[h] = recv[h]
       /\ HandlesOf(sinks') \subseteq HandlesOf(sinks)
       /\ HandlesOf(sinks) \ HandlesOf(sinks') \subseteq Called(calls', "err")
       /\ Len(sinks) - Len(sinks') = Cardinality(HandlesOf(sinks) \ HandlesOf(sinks'))]_vars

\* an Add was queued between poll_ready and start_send and is still queued
\* after it; the two outputs got item 1, the handle in the message nothing
C17_Witness ==
  /\ op = "start_send" /\ ret = "ok" /\ nsent = 1 /\ Len(sinks) = 2
  /\ Len(ctrl) = 1 /\ ctrl[1].t = "Add" /\ ~woken /\ ~ctrlWaker
  /\ recv[ctrl[1].h] = <<>>
  /\ \A h \in Present : recv[h] = <<1>>

\* poll_ready has returned Pending and no other Sink call was made since
ReadyPending == op = "poll_ready" /\ ret = "pending"

\* the cursor indexes the slot that caused the Pending
CursorAtCause ==
  /\ i < Len(sinks)
  /\ \/ sinks[i + 1].h = NoSink
     \/ /\ calls # <<>>
        /\ calls[Len(calls)] = Call(sinks[i + 1].h, "pending", Len(sinks))

\* every slot before the cursor holds a handle that has returned Ready(Ok)
ConfirmedBeforeCursor ==
  \A k \in 1..i : k <= Len(sinks) => (sinks[k].h # NoSink /\ rdy[sinks[k].h])

C18_AfterPoll ==
  /\ ReadyPending => (CursorAtCause /\ ConfirmedBeforeCursor)
  /\ (op = "poll_ready" /\ ret = "ready") => i = 0

\* the next poll_ready, nothing being queued, starts at the slot at the cursor
\* and polls no slot before it
C18_Resumes ==
  (ReadyPending /\ ctrl = <<>> /\ PollStep /\ op' = "poll_ready") =>
     /\ (calls' # <<>> /\ i < Len(sinks)) => calls'[1].h = sinks[i + 1].h
     /\ \A k \in 1..Len(calls') : \A j \in 1..i :
          j <= Len(sinks) => calls'[k].h # sinks[j].h

\* C18: when poll_ready returns Pending the cursor indexes the slot that
\* caused it and every slot before the cursor was confirmed ready in the
\* sweep; the next poll_ready resumes at that slot and polls no slot before
\* it again; when poll_ready returns Ready(Ok) the cursor is 0.
C18_SweepResumption == []C18_AfterPoll /\ [][C18_Resumes]_vars

\* the handles of the slots of s that hold one, in slot order
RECURSIVE PresentInOrder(_)
PresentInOrder(s) ==
  IF s = <<>> THEN <<>>
  ELSE IF Head(s).h = NoSink THEN PresentInOrder(Tail(s))
  ELSE <<Head(s).h>> \o PresentInOrder(Tail(s))

\* the step is a poll_flush or poll_close call that returns
FlushStep == PollStep /\ op' \in {"poll_flush", "poll_close"} /\ ret' # "panic"

\* C19: a poll_flush or poll_close call leaves the cursor where the queued
\* messages put it and calls each present handle of the sequence once, in slot
\* order, whatever the earlier ones returned; it returns Err exactly when a
\* handle failed as the only slot, otherwise Pending exactly when some handle
\* returned Pending, otherwise Ready(Ok).
C19_FlushVisitsAll ==
  [][FlushStep =>
       /\ [k \in 1..Len(calls') |-> calls'[k].h] = PresentInOrder(AppliedAll(ctrl, sinks))
       /\ ctrl = <<>> => i' = i
       /\ (ret' = "err") = (\E k \in 1..Len(calls') : calls'[k].r = "err" /\ calls'[k].n = 1)
       /\ ret' # "err" =>
            (ret' = "pending") = (Called(calls', "pending") # {})
       /\ ret' \in {"err", "pending", "ready"}]_vars

\* a sweep mid-way (cursor 1): poll_flush skipped the absent slot 0, got
\* Pending from slot 1 and still called slot 2
C19_Witness ==
  /\ op = "poll_flush" /\ ret = "pending" /\ i = 1
  /\ Len(sinks) = 3 /\ sinks[1].h = NoSink
  /\ calls = <<Call(sinks[2].h, "pending", 3), Call(sinks[3].h, "ready", 3)>>

\* the handles the Remove messages of q take out of the sequence s
RECURSIVE RemovedBy(_, _)
RemovedBy(q, s) ==
  IF q = <<>> THEN {}
  ELSE LET m == Head(q) IN
       (IF m.t = "Remove" THEN {s[Position(s, m.id) + 1].h} \ {NoSink} ELSE {})
         \cup RemovedBy(Tail(q), Applied(m, s))

C20_NotAfterFailure == spawned \cap failedH = {}

C20_ClosedByRemoveOnly ==
  /\ (PollStep /\ ret' # "panic") => spawned' = spawned \cup RemovedBy(ctrl, sinks)
  /\ ~PollStep => spawned' = spawned

\* C20: the handles handed to a detached close are exactly the present
\* handles of the slots that Remove messages removed: a poll call adds those
\* its queued Removes take out and returns in the same call, no other call
\* adds any, and no handle dropped by the failure policy is among them.
C20_DetachedClose == []C20_NotAfterFailure /\ [][C20_ClosedByRemoveOnly]_vars

\* one output was evicted after failing, one was replaced, and the handle
\* that replaced it was removed: only the last is being closed
C20_Witness ==
  /\ sinks = <<>> /\ Cardinality(Registered) = 2 /\ nmsgs = 2
  /\ Cardinality(failedH) = 1
  /\ \E h \in Registered \ failedH : gone[h] >= 0 /\ h \notin spawned
  /\ \E h \in Replaced : spawned = {h}

\* ---- C21 ----------------------------------------------------------------
\* handle a has its start_send invoked before handle b in the call list c
InvokedBefore(c, a, b) ==
  \E j, k \in 1..Len(c) : j < k /\ c[j].h = a /\ c[k].h = b

\* the pairs of positions p < q (1-based) that both hold a present handle
PresentPairs ==
  {pq \in (1..Len(sinks)) \X (1..Len(sinks)) :
     pq[1] < pq[2] /\ sinks[pq[1]].h # NoSink /\ sinks[pq[2]].h # NoSink}

\* C21: start_send delivers the copies in slot order: for slots at positions
\* p < q that both hold a present handle, the handle at p has its start_send
\* invoked before the handle at q.
C21_SlotOrder ==
  [][SendStep =>
       \A pq \in PresentPairs :
         InvokedBefore(calls', sinks[pq[1]].h, sinks[pq[2]].h)]_vars

\* C21 as the code has it: the slots after the first are served in slot
\* order and the first slot is served last, after every other present handle.
C21_FirstSlotLast ==
  [][SendStep =>
       \A pq \in PresentPairs :
         IF pq[1] = 1
           THEN InvokedBefore(calls', sinks[pq[2]].h, sinks[pq[1]].h)
           ELSE InvokedBefore(calls', sinks[pq[1]].h, sinks[pq[2]].h)]_vars

\* a start_send over three present handles has served slot 1, slot 2, slot 0
C21_Witness ==
  /\ op = "start_send" /\ ret = "ok" /\ Len(sinks) = 3 /\ Len(calls) = 3
  /\ calls[1].h = sinks[2].h /\ calls[2].h = sinks[3].h /\ calls[3].h = sinks[1].h

\* ---- C22 ----------------------------------------------------------------
\* C22: under the manager of Spec, which sends Remove(id) and Replace(id, _)
\* only for ids it has Added and not itself Removed and Add(id, _) only for
\* ids it does not currently hold, no control-message application panics,
\* whatever outputs fail and are evicted in between.
C22_WellBehavedNeverPanics ==
  phase # "panicked" /\ ret # "panic"

\* ---- C23 ----------------------------------------------------------------
\* the calls of the list c made on handle h
CallsOn(c, h) == {k \in 1..Len(c) : c[k].h = h}

\* C23: in every start_send over two or more present handles, each handle is
\* called once, and each handle that does not reject the item is still in
\* the sequence with exactly one more item, the submitted one, whether the
\* call returns Ok or Err and wherever the rejecting handles sit; the call
\* returns Err only when the last remaining slot rejects the item.
C23_FailureIsolated ==
  [][(SendStep /\ Cardinality(HandlesOf(sinks)) >= 2) =>
       /\ \A h \in HandlesOf(sinks) :
            /\ Cardinality(CallsOn(calls', h)) = 1
            /\ h \notin Called(calls', "err") =>
                 /\ h \in HandlesOf(sinks')
                 /\ recv'[h] = Append(recv[h], nsent')
       /\ ret' = "err" =>
            /\ Len(sinks') = 1
            /\ calls'[Len(calls')] = Call(sinks'[1].h, "err", 1)
       /\ ret' \in {"ok", "err"}]_vars

\* a start_send over three outputs in which the middle one rejected the item
\* and the two others have it
C23_Witness ==
  /\ op = "start_send" /\ ret = "ok" /\ nsent = 1 /\ nmsgs = 0
  /\ Len(calls) = 3 /\ calls[1] = Call(2, "err", 3)
  /\ Len(sinks) = 2 /\ recv[1] = <<1>> /\ recv[3] = <<1>>

\* ---- C24 ----------------------------------------------------------------
\* the step is a poll_flush, poll_close or start_send call, applying no
\* control message, that evicts a failing output while the cursor is past 0
EvictsMidSweep ==
  /\ i > 0 /\ ctrl = <<>>
  /\ op' \in {"poll_flush", "poll_close", "start_send"}
  /\ (PollStep \/ SendStep)
  /\ ret' # "err" /\ Called(calls', "err") # {}

\* the last Sink call was such a call, and nothing is queued
AfterEviction ==
  /\ i > 0 /\ ctrl = <<>>
  /\ op \in {"poll_flush", "poll_close", "start_send"}
  /\ ret # "err" /\ Called(calls, "err") # {}

\* the output the cursor indexed is still indexed by it, if it remains
CursorFollows ==
  (i < Len(sinks) /\ sinks[i + 1].h \in HandlesOf(sinks')) =>
     (i' < Len(sinks') /\ sinks'[i' + 1].h = sinks[i + 1].h)

\* the poll_ready that returns Ready(Ok) has polled every remaining output
\* not confirmed ready before
NoneSkipped ==
  (PollStep /\ op' = "poll_ready" /\ ret' = "ready") =>
     \A h \in HandlesOf(sinks) : ~rdy[h] => CallsOn(calls', h) # {}

\* C24: a failure eviction by poll_flush, poll_close or start_send during a
\* partially complete readiness sweep leaves the cursor on the same output,
\* and the next poll_ready polls every remaining output that was not yet
\* confirmed ready before it returns Ready(Ok).
C24_EvictionKeepsSweep ==
  [][/\ EvictsMidSweep => CursorFollows
     /\ AfterEviction => NoneSkipped]_vars
====
